---- MODULE Spec2Model ----
(***************************************************************************)
(* Model of the VEML6075 driver (src/src/device_impl.rs): the shadow of    *)
(* the configuration register, the configuration operations, the trigger   *)
(* and the register reads, over an I2C bus whose transactions may fail.    *)
(***************************************************************************)
EXTENDS Integers, Sequences, FiniteSets, TLC

VARIABLES config, lastWritten, hwConfig, last, error, history, complete

vars == <<config, lastWritten, hwConfig, last, error, history, complete>>

(* ---------------- u8 arithmetic of the Rust operators ---------------- *)

RECURSIVE AndN(_, _, _)
AndN(a, b, n) ==
    IF n = 0 THEN 0
    ELSE (a % 2) * (b % 2) + 2 * AndN(a \div 2, b \div 2, n - 1)

RECURSIVE OrN(_, _, _)
OrN(a, b, n) ==
    IF n = 0 THEN 0
    ELSE (IF (a % 2) + (b % 2) > 0 THEN 1 ELSE 0) + 2 * OrN(a \div 2, b \div 2, n - 1)

RECURSIVE NotN(_, _)
NotN(a, n) ==
    IF n = 0 THEN 0
    ELSE (1 - (a % 2)) + 2 * NotN(a \div 2, n - 1)

And8(a, b) == AndN(a, b, 8)

Or8(a, b) == OrN(a, b, 8)

Not8(a) == NotN(a, 8)

Shl8(a, n) == (a * (2 ^ n)) % 256

Or16(a, b) == OrN(a, b, 16)

Shl16(a, n) == (a * (2 ^ n)) % 65536

(* ---------------- registers, flags, address ---------------- *)

CONFIG == 0

UVA == 7

UVB == 9

UVCOMP1 == 10

UVCOMP2 == 11

DEVICE_ID == 12

SHUTDOWN == 1

HD == 8

UV_AF == 2

UV_TRIG_swapped == UV_AF

UV_TRIG == 4

DEVICE_ADDRESS == 16

IT_MASK == 143

Mode == {"Continuous", "ActiveForce"}

IntegrationTime == {"Ms50", "Ms100", "Ms200", "Ms400", "Ms800"}

DynamicSetting == {"Normal", "High"}

DataRegisters == {UVA, UVB, UVCOMP1, UVCOMP2, DEVICE_ID}

(* ---------------- the bus and the record of a call ---------------- *)

NoWrite == 0 - 1

WriteTx(bytes, busOk) ==
    [kind |-> "write", addr |-> DEVICE_ADDRESS, bytes |-> bytes,
     ok |-> busOk, resp |-> <<>>]

WriteReadTx(bytes, busOk, data) ==
    [kind |-> "write_read", addr |-> DEVICE_ADDRESS, bytes |-> bytes,
     ok |-> busOk, resp |-> data]

Call(op, arg, pre, txs, ok, val) ==
    [op |-> op, arg |-> arg, pre |-> pre, txs |-> txs, ok |-> ok, val |-> val]

NoCall == Call("none", "-", 0, <<>>, TRUE, <<>>)

(* The errors the transport may report for a failed transaction. *)
BusErrors == {"Nack", "ArbitrationLoss"}

NoError == [bus |-> "none", ret |-> "none"]

(* map_err(Error::I2C): bus is the error the transport reported for the failed
   transaction of the call, ret the error the call returns wrapped in
   Error::I2C; both "none" when no transaction failed. *)
Propagate(busOk) ==
    error' \in IF busOk THEN {NoError} ELSE {[bus |-> e, ret |-> e] : e \in BusErrors}

(* The calls made on the handle since new, kept while they are at most
   MaxHistory calls of the configuration operations and the trigger; complete
   tells whether history still holds every call since new. *)
MaxHistory == 2

Record(call) ==
    IF complete /\ Len(history) < MaxHistory
    THEN /\ history' = Append(history, call)
         /\ complete' = TRUE
    ELSE /\ history' = <<>>
         /\ complete' = FALSE

Forget ==
    /\ history' = <<>>
    /\ complete' = FALSE

(* The two response bytes of a read, <<low byte, high byte>>, as the device
   may deliver them. *)
Responses == {<<205, 171>>, <<127, 15>>}

(* What a write_read leaves in the caller's buffer: nothing when it fails. *)
Delivered(busOk) == IF busOk THEN Responses ELSE {<<>>}

(* ---------------- configuration bytes computed by the operations ---------------- *)

config_frame_short(cfg) == <<CONFIG, cfg>>

config_frame(cfg) == <<CONFIG, cfg, 0>>

enable_config_clobber(s) == 0

enable_config(s) == And8(s, Not8(SHUTDOWN))

disable_config_hd(s) == Or8(s, HD)

disable_config(s) == Or8(s, SHUTDOWN)

mode_config_swapped(s, mode) ==
    IF mode = "Continuous" THEN Or8(s, UV_AF) ELSE And8(s, Not8(UV_AF))

mode_config(s, mode) ==
    IF mode = "Continuous" THEN And8(s, Not8(UV_AF)) ELSE Or8(s, UV_AF)

trigger_config_shutdown(s) == Or8(Or8(s, UV_TRIG), SHUTDOWN)

trigger_config(s) == Or8(s, UV_TRIG)

it_code_config_wide(cfg, it) ==
    CASE it = "Ms50" -> cfg
      [] it = "Ms100" -> Or8(cfg, Shl8(1, 4))
      [] it = "Ms200" -> Or8(cfg, Shl8(2, 4))
      [] it = "Ms400" -> Or8(cfg, Shl8(4, 4))
      [] it = "Ms800" -> Or8(cfg, Shl8(8, 4))

it_code_config(cfg, it) ==
    CASE it = "Ms50" -> cfg
      [] it = "Ms100" -> Or8(cfg, Shl8(1, 4))
      [] it = "Ms200" -> Or8(cfg, Shl8(2, 4))
      [] it = "Ms400" -> Or8(cfg, Shl8(3, 4))
      [] it = "Ms800" -> Or8(cfg, Shl8(4, 4))

it_config_nomask(s, it) == it_code_config(s, it)

it_config(s, it) == it_code_config(And8(s, IT_MASK), it)

ds_config_clobber(s, ds) ==
    IF ds = "Normal" THEN And8(s, Not8(HD)) ELSE HD

ds_config(s, ds) ==
    IF ds = "Normal" THEN And8(s, Not8(HD)) ELSE Or8(s, HD)

(* The byte a setter computes from shadow s, by its name and argument. *)
SetterByte(op, arg, s) ==
    CASE op = "enable" -> enable_config(s)
      [] op = "disable" -> disable_config(s)
      [] op = "set_mode" -> mode_config(s, arg)
      [] op = "set_integration_time" -> it_config(s, arg)
      [] op = "set_dynamic_setting" -> ds_config(s, arg)

decode_big_endian(data) == Or16(Shl16(data[1], 8), data[2])

decode(data) == Or16(Shl16(data[2], 8), data[1])

(* decode over the responses the device may deliver, evaluated once. *)
Decoded == [data \in Responses |-> decode(data)]

DecodeOf(data) == IF data \in Responses THEN Decoded[data] ELSE decode(data)

(* ---------------- operations ---------------- *)

(* What the configuration register of the device may hold when a handle is
   constructed: its content is whatever was written to it before. *)
PriorConfigs == {0, 1, 74}

new_config_active == SHUTDOWN - SHUTDOWN

new_config == 1

(* new: the shadow is set, and no bus transaction is issued, so hwConfig is
   still what the register held. *)
Init ==
    /\ config = new_config
    /\ lastWritten = NoWrite
    /\ hwConfig \in PriorConfigs
    /\ last = NoCall
    /\ error = NoError
    /\ history = <<>>
    /\ complete = TRUE

write_config_stale(cfg, busOk, op, arg) ==
    /\ config' = config
    /\ lastWritten' = IF busOk THEN cfg ELSE lastWritten
    /\ hwConfig' = IF busOk THEN cfg ELSE hwConfig
    /\ last' = Call(op, arg, config, <<WriteTx(config_frame(cfg), busOk)>>, busOk, <<>>)
    /\ Record(last')
    /\ Propagate(busOk)

write_config_optimistic(cfg, busOk, op, arg) ==
    /\ config' = cfg
    /\ lastWritten' = IF busOk THEN cfg ELSE lastWritten
    /\ hwConfig' = IF busOk THEN cfg ELSE hwConfig
    /\ last' = Call(op, arg, config, <<WriteTx(config_frame(cfg), busOk)>>, busOk, <<>>)
    /\ Record(last')
    /\ Propagate(busOk)

write_config_retry(cfg, busOk, op, arg) ==
    /\ config' = IF busOk THEN cfg ELSE config
    /\ lastWritten' = IF busOk THEN cfg ELSE lastWritten
    /\ hwConfig' = IF busOk THEN cfg ELSE hwConfig
    /\ last' = Call(op, arg, config,
                    IF busOk
                    THEN <<WriteTx(config_frame(cfg), TRUE)>>
                    ELSE <<WriteTx(config_frame(cfg), FALSE),
                           WriteTx(config_frame(cfg), FALSE)>>,
                    busOk, <<>>)
    /\ Record(last')
    /\ Propagate(busOk)

write_config(cfg, busOk, op, arg) ==
    /\ config' = IF busOk THEN cfg ELSE config
    /\ lastWritten' = IF busOk THEN cfg ELSE lastWritten
    /\ hwConfig' = IF busOk THEN cfg ELSE hwConfig
    /\ last' = Call(op, arg, config, <<WriteTx(config_frame(cfg), busOk)>>, busOk, <<>>)
    /\ Record(last')
    /\ Propagate(busOk)

enable ==
    \E busOk \in BOOLEAN :
        write_config(enable_config(config), busOk, "enable", "-")

disable ==
    \E busOk \in BOOLEAN :
        write_config(disable_config(config), busOk, "disable", "-")

set_mode ==
    \E mode \in Mode, busOk \in BOOLEAN :
        write_config(mode_config(config, mode), busOk, "set_mode", mode)

trigger_measurement_remembered ==
    \E busOk \in BOOLEAN :
        write_config(trigger_config(config), busOk, "trigger_measurement", "-")

trigger_measurement ==
    \E busOk \in BOOLEAN :
        /\ lastWritten' = IF busOk THEN trigger_config(config) ELSE lastWritten
        /\ hwConfig' = IF busOk THEN trigger_config(config) ELSE hwConfig
        /\ last' = Call("trigger_measurement", "-", config,
                        <<WriteTx(config_frame(trigger_config(config)), busOk)>>,
                        busOk, <<>>)
        /\ Record(last')
        /\ Propagate(busOk)
        /\ UNCHANGED config

set_integration_time ==
    \E it \in IntegrationTime, busOk \in BOOLEAN :
        write_config(it_config(config, it), busOk, "set_integration_time", it)

set_dynamic_setting ==
    \E ds \in DynamicSetting, busOk \in BOOLEAN :
        write_config(ds_config(config, ds), busOk, "set_dynamic_setting", ds)

read_register_clobber(register, busOk, data, op) ==
    /\ last' = Call(op, "-", config,
                    <<WriteReadTx(<<register>>, busOk, data)>>,
                    busOk,
                    IF busOk THEN <<DecodeOf(data)>> ELSE <<>>)
    /\ Forget
    /\ Propagate(busOk)
    /\ config' = new_config
    /\ UNCHANGED <<lastWritten, hwConfig>>

read_register(register, busOk, data, op) ==
    /\ last' = Call(op, "-", config,
                    <<WriteReadTx(<<register>>, busOk, data)>>,
                    busOk,
                    IF busOk THEN <<DecodeOf(data)>> ELSE <<>>)
    /\ Forget
    /\ Propagate(busOk)
    /\ UNCHANGED <<config, lastWritten, hwConfig>>

read_uva ==
    \E busOk \in BOOLEAN : \E data \in Delivered(busOk) :
        read_register(UVA, busOk, data, "read_uva")

read_uvb ==
    \E busOk \in BOOLEAN : \E data \in Delivered(busOk) :
        read_register(UVB, busOk, data, "read_uvb")

read_uvcomp1 ==
    \E busOk \in BOOLEAN : \E data \in Delivered(busOk) :
        read_register(UVCOMP1, busOk, data, "read_uvcomp1")

read_uvcomp2 ==
    \E busOk \in BOOLEAN : \E data \in Delivered(busOk) :
        read_register(UVCOMP2, busOk, data, "read_uvcomp2")

read_device_id ==
    \E busOk \in BOOLEAN : \E data \in Delivered(busOk) :
        read_register(DEVICE_ID, busOk, data, "read_device_id")

ReadAllRegisters_swapped == <<UVB, UVA, UVCOMP1, UVCOMP2>>

(* The channels of read_all in the order of its sub-reads. *)
ReadAllRegisters == <<UVA, UVB, UVCOMP1, UVCOMP2>>

ReadAllIssued_all(firstErr) == Len(ReadAllRegisters)

(* The number of sub-reads read_all issues when sub-read firstErr is the first
   to fail: the `?` returns at it. *)
ReadAllIssued(firstErr) ==
    IF firstErr > Len(ReadAllRegisters) THEN Len(ReadAllRegisters) ELSE firstErr

(* firstErr is the sub-read whose transaction fails, the `?` returning at it;
   Len(ReadAllRegisters) + 1 when none fails. *)
read_all ==
    \E firstErr \in 1 .. Len(ReadAllRegisters) + 1 :
    \E data \in [1 .. firstErr - 1 -> Responses] :
        LET ok == firstErr > Len(ReadAllRegisters)
            txs == [k \in 1 .. ReadAllIssued(firstErr) |->
                      WriteReadTx(<<ReadAllRegisters[k]>>, k < firstErr,
                                  IF k < firstErr THEN data[k] ELSE <<>>)]
        IN  /\ last' = Call("read_all", "-", config, txs, ok,
                            IF ok
                            THEN [k \in 1 .. Len(ReadAllRegisters) |-> Decoded[data[k]]]
                            ELSE <<>>)
            /\ Forget
            /\ Propagate(ok)
            /\ UNCHANGED <<config, lastWritten, hwConfig>>

Next ==
    \/ enable
    \/ disable
    \/ set_mode
    \/ trigger_measurement
    \/ set_integration_time
    \/ set_dynamic_setting
    \/ read_uva
    \/ read_uvb
    \/ read_uvcomp1
    \/ read_uvcomp2
    \/ read_device_id
    \/ read_all

Spec == Init /\ [][Next]_vars

(* ---------------- one read of any response, on a fresh handle ---------------- *)

(* Every pair of bytes a write_read may leave in the two-byte buffer. *)
AllResponses == (0 .. 255) \X (0 .. 255)

DeliveredAny(busOk) == IF busOk THEN AllResponses ELSE {<<>>}

InitDecode ==
    /\ Init
    /\ hwConfig = 1

first_read_uva ==
    /\ last = NoCall
    /\ \E busOk \in BOOLEAN : \E data \in DeliveredAny(busOk) :
          read_register(UVA, busOk, data, "read_uva")

first_read_uvb ==
    /\ last = NoCall
    /\ \E busOk \in BOOLEAN : \E data \in DeliveredAny(busOk) :
          read_register(UVB, busOk, data, "read_uvb")

first_read_uvcomp1 ==
    /\ last = NoCall
    /\ \E busOk \in BOOLEAN : \E data \in DeliveredAny(busOk) :
          read_register(UVCOMP1, busOk, data, "read_uvcomp1")

first_read_uvcomp2 ==
    /\ last = NoCall
    /\ \E busOk \in BOOLEAN : \E data \in DeliveredAny(busOk) :
          read_register(UVCOMP2, busOk, data, "read_uvcomp2")

first_read_device_id ==
    /\ last = NoCall
    /\ \E busOk \in BOOLEAN : \E data \in DeliveredAny(busOk) :
          read_register(DEVICE_ID, busOk, data, "read_device_id")

NextDecode ==
    \/ first_read_uva
    \/ first_read_uvb
    \/ first_read_uvcomp1
    \/ first_read_uvcomp2
    \/ first_read_device_id

SpecDecode == InitDecode /\ [][NextDecode]_vars

(* ---------------- the calibrated read ---------------- *)

(* The default calibration: the visible and infrared coefficients in
   hundredths (2.22, 1.33, 2.95, 1.74), the responsivities in millionths
   (0.001461, 0.002591). *)
DefaultCalibration ==
    [uva_visible |-> 222, uva_ir |-> 133, uvb_visible |-> 295, uvb_ir |-> 174,
     uva_responsivity |-> 1461, uvb_responsivity |-> 2591]

(* The compensated channels, in hundredths of a count. *)
comp_uva(raw, cal) ==
    100 * raw[1] - cal.uva_visible * raw[3] - cal.uva_ir * raw[4]

comp_uvb(raw, cal) ==
    100 * raw[2] - cal.uvb_visible * raw[3] - cal.uvb_ir * raw[4]

Max0(x) == IF x < 0 THEN 0 ELSE x

calibrate_clamped(raw, cal) ==
    <<Max0(comp_uva(raw, cal)), Max0(comp_uvb(raw, cal)),
      Max0(comp_uva(raw, cal)) * cal.uva_responsivity
        + Max0(comp_uvb(raw, cal)) * cal.uvb_responsivity>>

(* <<uva, uvb, uv_index>>: uva and uvb in hundredths, uv_index as the numerator
   of (uva * uva_responsivity + uvb * uvb_responsivity) / 2 over the
   denominator 2 * 10^8. *)
calibrate(raw, cal) ==
    <<comp_uva(raw, cal), comp_uvb(raw, cal),
      comp_uva(raw, cal) * cal.uva_responsivity
        + comp_uvb(raw, cal) * cal.uvb_responsivity>>

(* The responses of the four channels in a calibrated read, among them those
   of the test (3967, 5818, 1007, 727) and zero. *)
CalResponses ==
    << {<<0, 0>>, <<127, 15>>, <<239, 3>>},
       {<<0, 0>>, <<186, 22>>, <<215, 2>>},
       {<<0, 0>>, <<239, 3>>, <<215, 2>>},
       {<<0, 0>>, <<215, 2>>, <<239, 3>>} >>

CalData(n) ==
    {d \in [1 .. n -> UNION {CalResponses[k] : k \in 1 .. Len(CalResponses)}] :
        \A k \in 1 .. n : d[k] \in CalResponses[k]}

(* read on a fresh handle: the four raw reads as in read_all, then the
   calibration formula. *)
read ==
    /\ last = NoCall
    /\ \E firstErr \in 1 .. Len(ReadAllRegisters) + 1 :
       \E data \in CalData(firstErr - 1) :
        LET ok == firstErr > Len(ReadAllRegisters)
            txs == [k \in 1 .. ReadAllIssued(firstErr) |->
                      WriteReadTx(<<ReadAllRegisters[k]>>, k < firstErr,
                                  IF k < firstErr THEN data[k] ELSE <<>>)]
        IN  /\ last' = Call("read", "-", config, txs, ok,
                            IF ok
                            THEN calibrate([k \in 1 .. Len(ReadAllRegisters) |->
                                               decode(data[k])],
                                           DefaultCalibration)
                            ELSE <<>>)
            /\ Forget
            /\ Propagate(ok)
            /\ UNCHANGED <<config, lastWritten, hwConfig>>

SpecCalibrated == InitDecode /\ [][read]_vars

(* ---------------- vocabulary of the properties ---------------- *)

Bit(x, i) == (x \div (2 ^ i)) % 2

SetBit(x, i, v) == x - Bit(x, i) * (2 ^ i) + v * (2 ^ i)

SameExcept(a, b, bits) == \A i \in (0 .. 7) \ bits : Bit(a, i) = Bit(b, i)

ConfigOps ==
    {"enable", "disable", "set_mode", "set_integration_time", "set_dynamic_setting"}

IsConfigOp(c) == c.op \in ConfigOps

IsWriteOp(c) == c.op \in ConfigOps \cup {"trigger_measurement"}

WrittenByte(c) == c.txs[1].bytes[2]

ItCode(it) ==
    CASE it = "Ms50" -> 0
      [] it = "Ms100" -> 1
      [] it = "Ms200" -> 2
      [] it = "Ms400" -> 3
      [] it = "Ms800" -> 4

(* The byte an operation is to write from shadow s, under the layout
   shutdown = bit 0, active force = bit 1, trigger = bit 2, high dynamic = bit 3,
   integration time = bits 4-6. *)
LayoutByte(op, arg, s) ==
    CASE op = "enable" -> SetBit(s, 0, 0)
      [] op = "disable" -> SetBit(s, 0, 1)
      [] op = "set_mode" -> SetBit(s, 1, IF arg = "ActiveForce" THEN 1 ELSE 0)
      [] op = "trigger_measurement" -> SetBit(s, 2, 1)
      [] op = "set_dynamic_setting" -> SetBit(s, 3, IF arg = "High" THEN 1 ELSE 0)
      [] op = "set_integration_time" ->
            s - ((s \div 16) % 8) * 16 + ItCode(arg) * 16

(* ---------------- C1 ---------------- *)

(* C1, as stated: once a bus write has succeeded, the shadow equals the last
   value successfully written to the configuration register. *)
C1_ShadowEqualsLastWritten ==
    lastWritten # NoWrite => config = lastWritten

(* C1, amended: the shadow equals the last value successfully written to the
   configuration register with the trigger bit (bit 2) cleared, and its own
   trigger bit is 0; before any write has succeeded it is 0x01. *)
C1_ShadowIsLastWrittenWithoutTrigger ==
    /\ lastWritten = NoWrite => config = 1
    /\ lastWritten # NoWrite =>
          /\ Bit(config, 2) = 0
          /\ SameExcept(config, lastWritten, {2})

C1_Witness ==
    /\ last.op = "trigger_measurement"
    /\ last.ok
    /\ config # 1
    /\ lastWritten = config + 4

(* ---------------- C2 ---------------- *)

(* C2: a configuration operation whose bus write fails returns the error and
   leaves the shadow as it was; the shadow becomes the computed byte only when
   the write succeeds; the configuration write that follows a failed one starts
   from the shadow as it was before the failure. *)
C2_ShadowChangesOnlyOnSuccess ==
    [][ IsConfigOp(last') =>
          /\ last'.pre = config
          /\ last'.ok = last'.txs[1].ok
          /\ last'.ok => config' = WrittenByte(last')
          /\ ~last'.ok => config' = config
          /\ (IsConfigOp(last) /\ ~last.ok) =>
                /\ last'.pre = last.pre
                /\ WrittenByte(last') = LayoutByte(last'.op, last'.arg, last.pre)
      ]_vars

C2_Witness ==
    /\ complete
    /\ Len(history) = 2
    /\ IsConfigOp(history[1])
    /\ ~history[1].ok
    /\ WrittenByte(history[1]) # history[1].pre
    /\ IsConfigOp(history[2])
    /\ history[2].ok
    /\ history[2].pre = history[1].pre
    /\ config = WrittenByte(history[2])
    /\ config # history[2].pre

(* ---------------- C3 ---------------- *)

(* C3: trigger_measurement leaves the shadow as it was, whether its write
   succeeds or fails, and the configuration write that follows it computes its
   byte from that shadow, not from the triggered value. *)
C3_TriggerKeepsShadow ==
    [][ /\ last'.op = "trigger_measurement" => config' = config
        /\ (last.op = "trigger_measurement" /\ IsConfigOp(last')) =>
              /\ last'.pre = last.pre
              /\ WrittenByte(last') = LayoutByte(last'.op, last'.arg, last.pre)
      ]_vars

C3_Witness ==
    /\ complete
    /\ Len(history) = 2
    /\ history[1].op = "trigger_measurement"
    /\ history[1].ok
    /\ IsConfigOp(history[2])
    /\ history[2].ok
    /\ history[2].pre = history[1].pre
    /\ Bit(WrittenByte(history[1]), 2) = 1
    /\ Bit(config, 2) = 0

(* ---------------- C4 ---------------- *)

(* C4, as stated: trigger_measurement writes the frame [0x00, s | 0b0000_0010,
   0x00], the trigger being bit 1. *)
C4_TriggerWritesBit1 ==
    last.op = "trigger_measurement" =>
        last.txs = <<WriteTx(<<0, SetBit(last.pre, 1, 1), 0>>, last.ok)>>

(* C4, amended: trigger_measurement writes the frame [0x00, s | 0b0000_0100,
   0x00], the trigger being bit 2 of the configuration register. *)
C4_TriggerWritesBit2 ==
    last.op = "trigger_measurement" =>
        /\ last.pre = config
        /\ last.txs = <<WriteTx(<<0, SetBit(last.pre, 2, 1), 0>>, last.ok)>>

C4_Witness ==
    /\ last.op = "trigger_measurement"
    /\ last.pre = 2
    /\ WrittenByte(last) = 6

(* ---------------- C5 ---------------- *)

(* C5, as stated: set_mode(ActiveForce) writes s with bit 2 set,
   set_mode(Continuous) writes s with bit 2 cleared, and every other bit of the
   written byte is that of s. *)
C5_ModeIsBit2 ==
    last.op = "set_mode" =>
        WrittenByte(last) =
            SetBit(last.pre, 2, IF last.arg = "ActiveForce" THEN 1 ELSE 0)

(* C5, amended: set_mode(ActiveForce) writes s with bit 1 set,
   set_mode(Continuous) writes s with bit 1 cleared (active force is bit 1 of
   the configuration register), and every other bit of the written byte is that
   of s. *)
C5_ModeIsBit1 ==
    last.op = "set_mode" =>
        /\ Bit(WrittenByte(last), 1) = (IF last.arg = "ActiveForce" THEN 1 ELSE 0)
        /\ SameExcept(WrittenByte(last), last.pre, {1})

C5_Witness ==
    /\ last.op = "set_mode"
    /\ last.arg = "Continuous"
    /\ last.ok
    /\ Bit(last.pre, 1) = 1
    /\ Bit(last.pre, 3) = 1
    /\ config = last.pre - 2

(* ---------------- C6 ---------------- *)

FirstCallByte(op, arg) ==
    CASE op = "enable" -> 0
      [] op = "disable" -> 1
      [] op = "set_integration_time" /\ arg = "Ms50" -> 1
      [] op = "set_integration_time" /\ arg = "Ms100" -> 17
      [] op = "set_integration_time" /\ arg = "Ms200" -> 33
      [] op = "set_integration_time" /\ arg = "Ms400" -> 49
      [] op = "set_integration_time" /\ arg = "Ms800" -> 65
      [] op = "set_dynamic_setting" /\ arg = "Normal" -> 1
      [] op = "set_dynamic_setting" /\ arg = "High" -> 9
      [] op = "set_mode" /\ arg = "Continuous" -> 1
      [] op = "set_mode" /\ arg = "ActiveForce" -> 3
      [] op = "trigger_measurement" -> 5

(* C6: the first operation on a fresh handle issues exactly one write to
   address 0x10 of the frame [0x00, v, 0x00] with v as the tests assert, and in
   any state the written byte is the shadow with only the operation's field
   changed (shutdown bit 0, active force bit 1, trigger bit 2, high dynamic
   bit 3, integration time bits 4-6). *)
C6_FramesAsTested ==
    /\ (complete /\ Len(history) = 1 /\ IsWriteOp(history[1])) =>
          /\ Len(history[1].txs) = 1
          /\ history[1].txs[1].kind = "write"
          /\ history[1].txs[1].addr = 16
          /\ history[1].txs[1].bytes =
                <<0, FirstCallByte(history[1].op, history[1].arg), 0>>
    /\ IsWriteOp(last) =>
          /\ Len(last.txs) = 1
          /\ last.txs[1].kind = "write"
          /\ last.txs[1].addr = 16
          /\ last.txs[1].bytes = <<0, LayoutByte(last.op, last.arg, last.pre), 0>>

C6_Witness ==
    /\ complete
    /\ Len(history) = 1
    /\ history[1].op = "set_integration_time"
    /\ history[1].arg = "Ms800"
    /\ history[1].ok
    /\ history[1].txs[1].bytes = <<0, 65, 0>>
    /\ config = 65

(* ---------------- C7 ---------------- *)

(* C7: a successful configuration write changes no bit outside the field of
   the requested change: enable and disable at most bit 0, set_mode at most the
   active-force bit, set_dynamic_setting at most bit 3, set_integration_time at
   most bits 4-6; so power and mode do not affect each other. *)
C7_OtherBitsPreserved ==
    [][ (IsConfigOp(last') /\ last'.ok) =>
          /\ last'.op \in {"enable", "disable"} => SameExcept(config, config', {0})
          /\ last'.op = "set_mode" =>
                /\ SameExcept(config, config', {1})
                /\ Bit(config', 0) = Bit(config, 0)
          /\ last'.op \in {"enable", "disable"} => Bit(config', 1) = Bit(config, 1)
          /\ last'.op = "set_dynamic_setting" => SameExcept(config, config', {3})
          /\ last'.op = "set_integration_time" =>
                SameExcept(config, config', {4, 5, 6})
      ]_vars

C7_Witness ==
    /\ last.op = "enable"
    /\ last.ok
    /\ last.pre = 75
    /\ config = 74

(* ---------------- C8 ---------------- *)

(* C8, as stated: the trigger bit, bit 1, of the shadow is 0 in every state,
   and the byte trigger_measurement writes differs from the shadow in no bit
   other than bit 1. *)
C8_ShadowBit1Clear ==
    /\ Bit(config, 1) = 0
    /\ last.op = "trigger_measurement" => SameExcept(WrittenByte(last), config, {1})

(* C8, amended: the trigger bit is bit 2: the shadow's bit 2 is 0 in every
   state, and the byte trigger_measurement writes has bit 2 set and differs
   from the shadow in no other bit. *)
C8_ShadowBit2Clear ==
    /\ Bit(config, 2) = 0
    /\ last.op = "trigger_measurement" =>
          /\ Bit(WrittenByte(last), 2) = 1
          /\ SameExcept(WrittenByte(last), config, {2})

C8_Witness ==
    /\ last.op = "trigger_measurement"
    /\ last.ok
    /\ Bit(config, 1) = 1
    /\ Bit(config, 0) = 0
    /\ WrittenByte(last) = config + 4

(* ---------------- C9 ---------------- *)

(* C9: set_integration_time(t) writes (s & 0b1000_1111) | (code << 4), code
   being 0..4 for 50, 100, 200, 400, 800 ms, that is s with bits 4-6 replaced by
   the code, and on success the shadow is that byte. *)
C9_IntegrationTimeByte ==
    last.op = "set_integration_time" =>
        /\ WrittenByte(last) =
              last.pre - ((last.pre \div 16) % 8) * 16 + ItCode(last.arg) * 16
        /\ last.ok => config = WrittenByte(last)
        /\ ~last.ok => config = last.pre

C9_Witness ==
    /\ last.op = "set_integration_time"
    /\ last.arg = "Ms100"
    /\ last.ok
    /\ last.pre = 75
    /\ config = 27

(* ---------------- C10 ---------------- *)

(* C10: from the state after new, a successful enable followed by a successful
   disable makes exactly two configuration writes, 0x00 then 0x01, and the
   shadow ends at 0x01 with only bit 0 having changed on the way. *)
C10_EnableThenDisable ==
    ( /\ complete
      /\ Len(history) = 2
      /\ history[1].op = "enable"
      /\ history[1].ok
      /\ history[2].op = "disable"
      /\ history[2].ok ) =>
        /\ history[1].pre = 1
        /\ history[1].txs = <<WriteTx(<<0, 0, 0>>, TRUE)>>
        /\ history[2].pre = 0
        /\ history[2].txs = <<WriteTx(<<0, 1, 0>>, TRUE)>>
        /\ config = 1
        /\ SameExcept(history[1].pre, history[2].pre, {0})
        /\ SameExcept(history[2].pre, config, {0})

C10_Witness ==
    /\ complete
    /\ Len(history) = 2
    /\ history[1].op = "enable"
    /\ history[1].ok
    /\ history[2].op = "disable"
    /\ history[2].ok
    /\ config = 1
    /\ lastWritten = 1

(* ---------------- C11 ---------------- *)

(* C11, as stated: right after new, before any other operation, the
   configuration register of the device has bit 0 set, whatever it held before,
   and equals the shadow 0x01. *)
C11_NewForcesShutdown ==
    (complete /\ history = <<>> /\ last = NoCall) =>
        /\ Bit(hwConfig, 0) = 1
        /\ hwConfig = config

(* C11, amended: new issues no bus transaction: the shadow is 0x01 and the
   register keeps what it held before construction until a write succeeds;
   from the first successful write on the register and the shadow agree in
   every bit but the trigger bit. *)
C11_NewLeavesRegister ==
    [][ /\ lastWritten' = NoWrite =>
              /\ hwConfig' = hwConfig
              /\ config' = 1
        /\ lastWritten' # NoWrite =>
              /\ hwConfig' = lastWritten'
              /\ SameExcept(hwConfig', config', {2})
      ]_vars

C11_Witness ==
    /\ last.op = "enable"
    /\ ~last.ok
    /\ lastWritten = NoWrite
    /\ config = 1
    /\ hwConfig = 0

(* ---------------- C12 ---------------- *)

LittleEndian(resp) == resp[1] + 256 * resp[2]

(* C12: when every transaction succeeds, read_all issues exactly four
   write-reads to address 0x10, of the registers 0x07, 0x09, 0x0A, 0x0B in that
   order, and the four fields of the measurement are the four decoded responses
   in the same order. *)
C12_ReadAllOrder ==
    (last.op = "read_all" /\ last.ok) =>
        /\ Len(last.txs) = 4
        /\ \A k \in 1 .. 4 :
              /\ last.txs[k].kind = "write_read"
              /\ last.txs[k].addr = 16
              /\ last.txs[k].ok
              /\ last.txs[k].bytes = << <<7, 9, 10, 11>>[k] >>
        /\ last.val = [k \in 1 .. 4 |-> LittleEndian(last.txs[k].resp)]

C12_Witness ==
    /\ last.op = "read_all"
    /\ last.ok
    /\ last.txs[1].resp = <<127, 15>>
    /\ last.txs[2].resp = <<205, 171>>
    /\ last.val = <<3967, 43981, 43981, 3967>>

(* ---------------- C13 ---------------- *)

(* C13: when the k-th sub-read of read_all is the first to fail, read_all
   returns that sub-read's bus error and no measurement, and issues no
   transaction for the channels after k. *)
C13_ReadAllAborts ==
    (last.op = "read_all" /\ ~last.ok) =>
        /\ Len(last.txs) \in 1 .. 4
        /\ ~last.txs[Len(last.txs)].ok
        /\ \A j \in 1 .. Len(last.txs) :
              /\ last.txs[j].bytes = << <<7, 9, 10, 11>>[j] >>
              /\ j < Len(last.txs) => last.txs[j].ok
        /\ last.val = <<>>
        /\ error.bus \in BusErrors
        /\ error.ret = error.bus

C13_Witness ==
    /\ last.op = "read_all"
    /\ ~last.ok
    /\ Len(last.txs) = 2
    /\ last.txs[1].ok
    /\ last.txs[1].resp = <<205, 171>>
    /\ ~last.txs[2].ok
    /\ last.val = <<>>
    /\ error.ret = "Nack"

(* ---------------- C14 ---------------- *)

SingleReads ==
    {"read_uva", "read_uvb", "read_uvcomp1", "read_uvcomp2", "read_device_id"}

RegisterOf(op) ==
    CASE op = "read_uva" -> 7
      [] op = "read_uvb" -> 9
      [] op = "read_uvcomp1" -> 10
      [] op = "read_uvcomp2" -> 11
      [] op = "read_device_id" -> 12

(* C14: a successful read_uva, read_uvb, read_uvcomp1, read_uvcomp2 or
   read_device_id issues exactly one write-read of its one-byte register
   address (0x07, 0x09, 0x0A, 0x0B, 0x0C) and returns lo + 256 * hi, a value in
   0..65535, for every pair of response bytes [lo, hi]. *)
C14_LittleEndianRead ==
    (last.op \in SingleReads /\ last.ok) =>
        /\ Len(last.txs) = 1
        /\ last.txs[1].kind = "write_read"
        /\ last.txs[1].addr = 16
        /\ last.txs[1].bytes = <<RegisterOf(last.op)>>
        /\ last.val = <<last.txs[1].resp[1] + 256 * last.txs[1].resp[2]>>
        /\ last.val[1] \in 0 .. 65535

C14_Witness ==
    /\ last.op = "read_uvcomp2"
    /\ last.ok
    /\ last.txs[1].resp = <<52, 18>>
    /\ last.val = <<4660>>

(* ---------------- C15 ---------------- *)

(* C15: the calibrated read performs the four raw reads in the order UVA, UVB,
   UVCOMP1, UVCOMP2 and returns uva = raw.uva - 2.22 * raw.uvcomp1 - 1.33 *
   raw.uvcomp2, uvb = raw.uvb - 2.95 * raw.uvcomp1 - 1.74 * raw.uvcomp2 and
   uv_index = (uva * 0.001461 + uvb * 0.002591) / 2, without clamping: a
   negative compensated value is returned as it is. *)
C15_CalibratedRead ==
    (last.op = "read" /\ last.ok) =>
        LET raw == [k \in 1 .. 4 |-> LittleEndian(last.txs[k].resp)]
        IN  /\ Len(last.txs) = 4
            /\ \A k \in 1 .. 4 :
                  /\ last.txs[k].kind = "write_read"
                  /\ last.txs[k].bytes = << <<7, 9, 10, 11>>[k] >>
            /\ last.val[1] = 100 * raw[1] - 222 * raw[3] - 133 * raw[4]
            /\ last.val[2] = 100 * raw[2] - 295 * raw[3] - 174 * raw[4]
            /\ last.val[3] = 1461 * last.val[1] + 2591 * last.val[2]
            /\ (raw = <<3967, 5818, 1007, 727>>) =>
                  last.val = <<76455, 158237, 521692822>>

C15_Witness ==
    /\ last.op = "read"
    /\ last.ok
    /\ last.txs[1].resp = <<0, 0>>
    /\ last.txs[3].resp = <<239, 3>>
    /\ last.val[1] < 0

(* ---------------- C16 ---------------- *)

(* C16: no retries: each call of enable, disable, set_mode,
   set_integration_time, set_dynamic_setting or trigger_measurement issues
   exactly one bus write and each single-register read exactly one write-read,
   whether it succeeds or fails; a failed call returns the error of the
   transport unchanged and issues nothing further. *)
C16_OneTransactionPerCall ==
    (IsWriteOp(last) \/ last.op \in SingleReads) =>
        /\ Len(last.txs) = 1
        /\ last.txs[1].kind = (IF IsWriteOp(last) THEN "write" ELSE "write_read")
        /\ last.txs[1].ok = last.ok
        /\ last.ok => error = NoError
        /\ ~last.ok =>
              /\ error.bus \in BusErrors
              /\ error.ret = error.bus

C16_Witness ==
    /\ last.op = "set_mode"
    /\ ~last.ok
    /\ Len(last.txs) = 1
    /\ error.ret = "ArbitrationLoss"
    /\ config = 75

(* ---------------- C17 ---------------- *)

ReadOps == SingleReads \cup {"read_all"}

(* C17: the shadow changes only in a successful configuration write: the
   reads, read_all among them, leave the shadow and the configuration register
   as they were and issue no write to the configuration register, whether they
   succeed or fail. *)
C17_ReadsKeepShadow ==
    [][ /\ last'.op \in ReadOps =>
              /\ config' = config
              /\ lastWritten' = lastWritten
              /\ hwConfig' = hwConfig
              /\ \A k \in 1 .. Len(last'.txs) :
                    /\ last'.txs[k].kind = "write_read"
                    /\ last'.txs[k].bytes[1] # 0
        /\ config' # config => (IsConfigOp(last') /\ last'.ok)
      ]_vars

C17_Witness ==
    /\ last.op = "read_all"
    /\ ~last.ok
    /\ Len(last.txs) = 3
    /\ config = 75
    /\ lastWritten = 75

(* ---------------- C18 ---------------- *)

WellFormed(byte) ==
    /\ Bit(byte, 7) = 0
    /\ (byte \div 16) % 8 \in 0 .. 4

(* C18: the shadow and every byte written to the configuration register have
   bit 7 equal to 0 and one of the codes 0..4 in the integration-time field,
   bits 4-6. *)
C18_ReservedBitClear ==
    /\ WellFormed(config)
    /\ lastWritten # NoWrite => WellFormed(lastWritten)
    /\ IsWriteOp(last) => WellFormed(WrittenByte(last))

C18_Witness ==
    /\ last.op = "set_integration_time"
    /\ last.arg = "Ms800"
    /\ last.ok
    /\ last.pre = 59
    /\ config = 75

(* ---------------- C19 ---------------- *)

Setters ==
    {<<"enable", "-">>, <<"disable", "-">>}
      \cup {<<"set_mode", m>> : m \in Mode}
      \cup {<<"set_integration_time", it>> : it \in IntegrationTime}
      \cup {<<"set_dynamic_setting", ds>> : ds \in DynamicSetting}

FieldBits(op) ==
    CASE op \in {"enable", "disable"} -> {0}
      [] op = "set_mode" -> {1}
      [] op = "set_dynamic_setting" -> {3}
      [] op = "set_integration_time" -> {4, 5, 6}

(* The successful setters of a field in the history, most recent last. *)
SettingsOf(bits) ==
    SelectSeq(history, LAMBDA c : IsConfigOp(c) /\ c.ok /\ FieldBits(c.op) = bits)

(* Whether, from shadow s, every setter is idempotent and every two setters of
   different fields commute. *)
SettersCommuteAt(s) ==
    \A a \in Setters :
        /\ SetterByte(a[1], a[2], SetterByte(a[1], a[2], s))
              = SetterByte(a[1], a[2], s)
        /\ \A b \in Setters :
              FieldBits(a[1]) # FieldBits(b[1]) =>
                  SetterByte(a[1], a[2], SetterByte(b[1], b[2], s))
                    = SetterByte(b[1], b[2], SetterByte(a[1], a[2], s))

SettersCommuteTable == [s \in 0 .. 255 |-> SettersCommuteAt(s)]

(* C19: when the writes succeed, a setter called twice with the same argument
   leaves the shadow as after the first call, two setters of different fields
   give the same shadow in either order, and each field of the shadow is what
   the last successful setter of that field set (what new set, if none). *)
C19_SettersCommute ==
    /\ SettersCommuteTable[config]
    /\ ( /\ complete
         /\ Len(history) >= 2
         /\ IsConfigOp(history[Len(history) - 1])
         /\ history[Len(history) - 1].ok
         /\ IsConfigOp(history[Len(history)])
         /\ history[Len(history)].ok ) =>
          LET h1 == history[Len(history) - 1]
              h2 == history[Len(history)]
          IN  /\ (h1.op = h2.op /\ h1.arg = h2.arg) => config = h2.pre
              /\ FieldBits(h1.op) # FieldBits(h2.op) =>
                    config = SetterByte(h1.op, h1.arg,
                                        SetterByte(h2.op, h2.arg, h1.pre))
    /\ complete =>
          \A bits \in {{0}, {1}, {3}, {4, 5, 6}} :
              LET set == SettingsOf(bits)
                  want == IF set = <<>> THEN 1
                          ELSE LayoutByte(set[Len(set)].op, set[Len(set)].arg, 0)
              IN  \A i \in bits : Bit(config, i) = Bit(want, i)

C19_Witness ==
    /\ complete
    /\ Len(history) = 2
    /\ history[1].op = "set_integration_time"
    /\ history[1].arg = "Ms400"
    /\ history[1].ok
    /\ history[2].op = "set_mode"
    /\ history[2].arg = "ActiveForce"
    /\ history[2].ok
    /\ config = 51

====
